---- MODULE Spec2Model ----
(***************************************************************************)
(* Model of apple_xml_to_spotify.py: the library reader (load_apple_xml),  *)
(* the remote search matcher (search_track), the playlist synchronizer    *)
(* (create_playlist, find_user_playlist_by_name, clear_playlist,           *)
(* add_tracks_in_batches) and the run driver (main).                       *)
(*                                                                         *)
(* Text is a tuple of one-character strings, so that strip(), lower() and  *)
(* html.unescape() are computed and not assumed.  Track and playlist ids   *)
(* are strings.  An absent value (Python None) is the string "None" for    *)
(* ids and the empty tuple for text and years.                             *)
(***************************************************************************)
EXTENDS Integers, Sequences, FiniteSets, TLC

None == "None"

(***************************************************************************)
(* Text helpers                                                            *)
(***************************************************************************)

\* str.lower() on one character
LowerChar(c) ==
  CASE c = "A" -> "a"
    [] c = "B" -> "b"
    [] c = "X" -> "x"
    [] c = "Y" -> "y"
    [] c = "P" -> "p"
    [] c = "Q" -> "q"
    [] OTHER -> c

\* str.lower()
Lower(s) == [i \in DOMAIN s |-> LowerChar(s[i])]

\* str.isspace() on one character; "nbsp" is U+00A0, which Python strips
IsSpace(c) == c \in {" ", "nbsp"}

RECURSIVE LStrip(_)
LStrip(s) == IF s # <<>> /\ IsSpace(Head(s)) THEN LStrip(Tail(s)) ELSE s

RECURSIVE RStrip(_)
RStrip(s) ==
  IF s # <<>> /\ IsSpace(s[Len(s)]) THEN RStrip(SubSeq(s, 1, Len(s) - 1)) ELSE s

\* str.strip()
Strip(s) == RStrip(LStrip(s))

\* html.unescape() on one token: a character reference is one token
UnescapeChar(c) ==
  CASE c = "&amp;" -> "&"
    [] c = "&nbsp;" -> "nbsp"
    [] OTHER -> c

\* html.unescape()
Unescape(s) == [i \in DOMAIN s |-> UnescapeChar(s[i])]

\* Python truthiness of a str / list
Truthy(s) == s # <<>>

Min(a, b) == IF a < b THEN a ELSE b

\* the slice xs[i : i + n] with a 0-based start i
Slice(xs, i, n) == SubSeq(xs, i + 1, Min(i + n, Len(xs)))

(***************************************************************************)
(* load_apple_xml                                                          *)
(***************************************************************************)

\* normalize_track: unescape then strip; the year is kept only if integral
normalize_track(t) ==
  [name   |-> Strip(Unescape(t.Name)),
   artist |-> Strip(Unescape(t.Artist)),
   year   |-> IF t.Year # <<>> /\ t.Year[1] = "int" THEN <<t.Year[2]>> ELSE <<>>]

\* a sequence paired with its positions, for loops that look back
Indexed(xs) == [i \in DOMAIN xs |-> [i |-> i, x |-> xs[i]]]

\* the dict key of one entry of the Tracks table: int(t.get("Track ID", _id))
TrackKey(e) == IF e.t.TrackID # <<>> THEN e.t.TrackID[1] ELSE e.key

\* the id -> track map after the loop of lines 28-29, as the sequence of its
\* (key, value) pairs in dict order: a key stands where it was first inserted
\* and holds the track assigned to it last
BuildIdToTrack(tracks) ==
  LET firsts == SelectSeq(Indexed(tracks),
                          LAMBDA e : \A j \in 1..(e.i - 1) :
                                       TrackKey(tracks[j]) # TrackKey(e.x))
      LastOf(k) == CHOOSE j \in DOMAIN tracks :
                     /\ TrackKey(tracks[j]) = k
                     /\ \A h \in DOMAIN tracks :
                          TrackKey(tracks[h]) = k => h <= j
  IN [n \in DOMAIN firsts |->
        <<TrackKey(firsts[n].x), tracks[LastOf(TrackKey(firsts[n].x))].t>>]

DictHas(d, k) == \E i \in DOMAIN d : d[i][1] = k
DictGet(d, k) == d[CHOOSE i \in DOMAIN d : d[i][1] = k][2]

\* the first playlist whose name equals the preferred one, or 0 for none
SelectedPlaylist(playlists, preferred) ==
  LET hits == {i \in DOMAIN playlists :
                 Lower(Strip(playlists[i].Name)) = Lower(Strip(preferred))}
  IN IF Truthy(preferred) /\ hits # {}
     THEN CHOOSE i \in hits : \A j \in hits : i <= j
     ELSE 0

\* the items of the selected playlist, resolved through the map
RECURSIVE PlaylistTracks(_, _)
PlaylistTracks(its, d) ==
  IF its = <<>> THEN <<>>
  ELSE LET tid == Head(its)
           rest == PlaylistTracks(Tail(its), d)
       IN IF tid # 0 /\ DictHas(d, tid)
          THEN <<normalize_track(DictGet(d, tid))>> \o rest
          ELSE rest

\* the resolved, normalized tracks before deduplication
ResolvedItems(pl, preferred) ==
  LET d == BuildIdToTrack(pl.Tracks)
      sel == SelectedPlaylist(pl.Playlists, preferred)
  IN IF sel # 0
     THEN PlaylistTracks(pl.Playlists[sel].Items, d)
     ELSE [i \in DOMAIN d |-> normalize_track(d[i][2])]

\* the deduplication key
Key(it) == <<Lower(it.name), Lower(it.artist)>>

\* keeps an item when both fields are non-empty and its key is new
KeepMut(it, seen) == Truthy(it.name) /\ Truthy(it.artist)
Keep(it, seen) == Truthy(it.name) /\ Truthy(it.artist) /\ Key(it) \notin seen

\* the set seen when the loop of lines 61-65 reaches position i: the keys of
\* the earlier items with both fields non-empty (each was added when it was
\* kept, or was already there)
SeenAt(its, i) ==
  {Key(its[j]) : j \in {h \in 1..(i - 1) :
                          Truthy(its[h].name) /\ Truthy(its[h].artist)}}

\* "Deduplicate while keeping order": unique, in order of appending
Dedupe(its) ==
  LET kept == SelectSeq(Indexed(its), LAMBDA e : Keep(e.x, SeenAt(its, e.i)))
  IN [n \in DOMAIN kept |-> kept[n].x]

load_apple_xml(pl, preferred) == Dedupe(ResolvedItems(pl, preferred))

(***************************************************************************)
(* search_track: the pure parts                                            *)
(***************************************************************************)

SearchLimit == 3

\* Python truthiness of the year (None and 0 are falsy)
YearTruthy(year) == year # <<>> /\ year[1] # 0

\* one query string, kept as its parts
Query(kind, name, artist, year) ==
  [kind |-> kind, name |-> name, artist |-> artist, year |-> year]

\* the query list of search_track, in the order it is iterated
BuildQueriesNoLoose(name, artist, year) ==
  (IF YearTruthy(year) THEN <<Query("year", name, artist, year)>> ELSE <<>>)
  \o <<Query("strict", name, artist, <<>>)>>
BuildQueriesLooseFirst(name, artist, year) ==
  <<Query("loose", name, artist, <<>>)>>
  \o (IF YearTruthy(year) THEN <<Query("year", name, artist, year)>> ELSE <<>>)
  \o <<Query("strict", name, artist, <<>>)>>
BuildQueries(name, artist, year) ==
  (IF YearTruthy(year) THEN <<Query("year", name, artist, year)>> ELSE <<>>)
  \o <<Query("strict", name, artist, <<>>), Query("loose", name, artist, <<>>)>>

\* the "exact-ish" test of one candidate
IsExact(it, name, artist) ==
  /\ Lower(Strip(name)) = Lower(Strip(it.name))
  /\ Lower(Strip(artist)) \in {Lower(Strip(a)) : a \in it.artists}

\* the value one pass returns for its candidate list, None to go on
PassResultFirstOnly(cands, name, artist) ==
  IF cands # <<>> THEN cands[1].id ELSE None
PassResult(cands, name, artist) ==
  LET hits == {i \in DOMAIN cands : IsExact(cands[i], name, artist)}
  IN IF hits # {}
     THEN cands[CHOOSE i \in hits : \A j \in hits : i <= j].id
     ELSE IF cands # <<>> THEN cands[1].id ELSE None

\* what the except clause does with an error of the first call of a pass
OnSearchErrorAlwaysRetry(status) == "retry"
OnSearchError(status) == IF status = 429 THEN "retry" ELSE "raise"

(***************************************************************************)
(* add_tracks_in_batches, find_user_playlist_by_name, clear_playlist       *)
(***************************************************************************)

AddBatch == 100
PlaylistPageLimit == 50
ClearPageLimit == 100
RemoveBatch == 100

Range(xs) == {xs[i] : i \in DOMAIN xs}

RECURSIVE Concat(_)
Concat(chunks) ==
  IF chunks = <<>> THEN <<>> ELSE Head(chunks) \o Concat(Tail(chunks))

\* the slices xs[i : i + n] for i in range(start, len(xs), n)
RECURSIVE ChunksFrom(_, _, _)
ChunksFrom(xs, i, n) ==
  IF i >= Len(xs) THEN <<>>
  ELSE <<Slice(xs, i, n)>> \o ChunksFrom(xs, i + n, n)

\* the playlist_add_items calls of add_tracks_in_batches, in call order
AddChunksOverlap(track_ids) ==
  LET starts == ChunksFrom(track_ids, 0, AddBatch)
  IN [k \in DOMAIN starts |-> Slice(track_ids, (k - 1) * AddBatch, AddBatch + 1)]
AddChunks(track_ids) == ChunksFrom(track_ids, 0, AddBatch)

\* one page of a listing: limit entries from a 0-based offset
Page(xs, offset, limit) == Slice(xs, offset, limit)

\* the for loop over one page of playlists (lines 146-151): the id returned
\* from inside the loop (None when the loop ends), and the candidate after it
ScanPageFirstHit(page, name_lc, uid, candidate) ==
  LET hits == {i \in DOMAIN page : Lower(Strip(page[i].name)) = name_lc}
      First(I) == CHOOSE i \in I : \A j \in I : i <= j
  IN IF hits # {}
     THEN [ret |-> page[First(hits)].id, cand |-> candidate]
     ELSE [ret |-> None, cand |-> candidate]
ScanPage(page, name_lc, uid, candidate) ==
  LET hits == {i \in DOMAIN page : Lower(Strip(page[i].name)) = name_lc}
      owned == {i \in hits : page[i].owner = uid}
      First(I) == CHOOSE i \in I : \A j \in I : i <= j
  IN IF owned # {}
     THEN [ret |-> page[First(owned)].id, cand |-> candidate]
     ELSE [ret |-> None,
           cand |-> IF candidate = None /\ hits # {}
                    THEN page[First(hits)].id
                    ELSE candidate]

\* the while loop of find_user_playlist_by_name from an offset
RECURSIVE FindFrom(_, _, _, _, _)
FindFrom(listing, name_lc, uid, offset, candidate) ==
  LET items == Page(listing, offset, PlaylistPageLimit)
      scan == ScanPage(items, name_lc, uid, candidate)
  IN IF items = <<>> THEN candidate
     ELSE IF scan.ret # None THEN scan.ret
     ELSE IF Len(items) < PlaylistPageLimit THEN scan.cand
     ELSE FindFrom(listing, name_lc, uid, offset + Len(items), scan.cand)

find_user_playlist_by_name(listing, uid, name) ==
  FindFrom(listing, Lower(Strip(name)), uid, 0, None)

\* the uris of one page of playlist items; an item without track or uri is None
PageUris(items) == SelectSeq(items, LAMBDA u : u # None)

\* the reading loop of clear_playlist from an offset
RECURSIVE ReadUris(_, _, _)
ReadUris(plitems, offset, uris) ==
  LET items == Page(plitems, offset, ClearPageLimit)
      next == offset + ClearPageLimit < Len(plitems)
  IN IF items = <<>> THEN uris
     ELSE IF ~next THEN uris \o PageUris(items)
     ELSE ReadUris(plitems, offset + ClearPageLimit, uris \o PageUris(items))

\* the playlist_remove_all_occurrences_of_items calls of clear_playlist
RemoveChunks(plitems) == ChunksFrom(ReadUris(plitems, 0, <<>>), 0, RemoveBatch)

\* the service's effect of one removal call on a playlist's items
RemoveAll(plitems, chunk) == SelectSeq(plitems, LAMBDA u : u \notin Range(chunk))

RECURSIVE ApplyRemoves(_, _)
ApplyRemoves(plitems, chunks) ==
  IF chunks = <<>> THEN plitems
  ELSE ApplyRemoves(RemoveAll(plitems, Head(chunks)), Tail(chunks))

(***************************************************************************)
(* State                                                                   *)
(***************************************************************************)

VARIABLES
  args,        \* parsed command line: spotify_name, use_existing, mode, apple_playlist
  env,         \* TRUE when the three SPOTIPY_* variables are set
  library,     \* the plist document: Tracks and Playlists
  catalog,     \* the service's track catalog: the answers a search may get
  listing,     \* the service's listing of the user's playlists, in listing order
  contents,    \* the service's playlist items, by playlist id
  contents0,   \* contents when the run started
  issued,      \* the kinds of remote call issued so far
  order,       \* the kinds of remote call in the order issued, repeats merged
  creates,     \* the names of the user_playlist_create calls, in call order
  adds,        \* the chunks of the playlist_add_items calls, in call order
  removes,     \* the chunks of the removal calls, in call order
  pc,          \* position of main
  exit_code,   \* <<>> while running, <<n>> once the process has ended
  items,       \* main's items: the records read
  playlist_id, \* main's playlist_id
  found_ids,   \* main's found_ids
  misses,      \* main's misses
  idx,         \* 1-based position of the matching loop in items
  report,      \* the not-found CSV: whether written, and its rows
  results,     \* what search_track returned for each record so far
  queries,     \* search_track's queries
  qi,          \* 1-based position of search_track's loop in queries
  calls,       \* the sp.search calls of the current pass: query and outcome
  resps,       \* the candidate lists received for the current record, by pass
  asked        \* the queries whose pass has started for the current record

vars == <<args, env, library, catalog, listing, contents, contents0, issued,
          order, asked, creates, adds, removes, pc, exit_code, items, playlist_id, found_ids,
          misses, idx, report, results, queries, qi, calls, resps>>

remoteVars == <<listing, contents, creates, adds, removes>>
searchVars == <<queries, qi, calls, resps, asked>>
callVars == <<issued, order>>
loopVars == <<found_ids, misses, idx, results>>
inputVars == <<args, env, library, catalog, contents0>>

Me == "me"

PlaylistIds == {"p1", "p2", "p3", "new1", "new2"}

(***************************************************************************)
(* The remote service                                                      *)
(***************************************************************************)

RECURSIVE Join(_)
Join(s) == IF s = <<>> THEN "" ELSE Head(s) \o Join(Tail(s))

\* a catalog that holds the library's own tracks, except (with gaps) those
\* whose title ends in "0"
EchoAnswer(cat, q) ==
  IF cat.gaps /\ q.name # <<>> /\ q.name[Len(q.name)] = "0"
  THEN <<>>
  ELSE <<[id |-> Join(q.name), name |-> q.name, artists |-> {q.artist}]>>

\* the candidate lists sp.search(q, type="track", limit=3) may return: the
\* catalog's own track, the list the catalog holds for this kind of query, or
\* any list of the catalog
Answers(cat, q) ==
  IF cat.echo THEN {EchoAnswer(cat, q)}
  ELSE IF cat.fixed THEN {cat.by[q.kind]}
  ELSE cat.lists

\* the listings after user_playlist_create: the new entry is listed first or last
ListingsAfterCreate(lst, id, name) ==
  LET e == [id |-> id, name |-> name, owner |-> Me]
  IN {<<e>> \o lst, Append(lst, e)}

NewId(n) == "new" \o ToString(n)

(***************************************************************************)
(* main                                                                    *)
(***************************************************************************)

\* the kinds ks of remote call are issued, in that order
RECURSIVE Merged(_, _)
Merged(log, ks) ==
  IF ks = <<>> THEN log
  ELSE Merged(IF log # <<>> /\ log[Len(log)] = Head(ks) THEN log
              ELSE Append(log, Head(ks)),
              Tail(ks))

Issue(ks) ==
  /\ issued' = issued \cup Range(ks)
  /\ order' = Merged(order, ks)

\* the statements of main up to the first use of the client, in program order
MainOrderClientFirst(p) ==
  CASE p = "env" -> "client"
    [] p = "client" -> "load"
    [] OTHER -> "create"
MainOrder(p) ==
  CASE p = "env" -> "load"
    [] p = "load" -> "client"
    [] OTHER -> "create"

\* sys.exit(code)
Exit(code) == pc' = "exit" /\ exit_code' = <<code>>

\* an exception that nothing catches ends the process with status 1
Raise == pc' = "raised" /\ exit_code' = <<1>>

\* lines 191-195: the credential variables
CheckEnv ==
  /\ pc = "env"
  /\ IF env THEN pc' = MainOrder("env") /\ UNCHANGED exit_code ELSE Exit(2)
  /\ UNCHANGED <<inputVars, remoteVars, searchVars, loopVars, callVars, items,
                 playlist_id, report>>

\* lines 197-200: read the records
Load ==
  /\ pc = "load"
  /\ items' = load_apple_xml(library, args.apple_playlist)
  /\ IF Truthy(items') THEN pc' = MainOrder("load") /\ UNCHANGED exit_code
     ELSE Exit(1)
  /\ UNCHANGED <<inputVars, remoteVars, searchVars, loopVars, callVars,
                 playlist_id, report>>

\* line 202: spotify_client()
Client ==
  /\ pc = "client"
  /\ Issue(<<"auth">>)
  /\ pc' = MainOrder("client")
  /\ UNCHANGED <<inputVars, remoteVars, searchVars, loopVars, exit_code, items,
                 playlist_id, report>>

\* create_playlist: current_user(), then user_playlist_create()
create_playlist(name) ==
  /\ Issue(<<"me", "create">>)
  /\ creates' = Append(creates, name)
  /\ playlist_id' = NewId(Len(creates) + 1)
  /\ listing' \in ListingsAfterCreate(listing, playlist_id', name)
  /\ UNCHANGED <<contents, adds, removes>>

\* lines 203-208: the create_playlist call ahead of the target choice; the
\* service may reject a playlist without a name
CreateFirst ==
  /\ pc = "create"
  /\ \/ /\ create_playlist(args.spotify_name)
        /\ pc' = "target"
        /\ UNCHANGED exit_code
     \/ /\ ~Truthy(args.spotify_name)
        /\ Issue(<<"me", "create">>)
        /\ creates' = Append(creates, args.spotify_name)
        /\ Raise
        /\ UNCHANGED <<listing, contents, adds, removes, playlist_id>>
  /\ UNCHANGED <<inputVars, searchVars, loopVars, items, report>>

\* the if / elif / else of lines 210-229
TargetBranch(a) ==
  IF Truthy(a.use_existing) THEN "existing"
  ELSE IF Truthy(a.spotify_name) THEN "create"
  ELSE "usage"

\* line 216: whether the reused playlist is cleared
ShouldClearAlways(a) == TRUE
ShouldClear(a) == a.mode = "replace"

\* lines 211-215: locate the playlist to reuse
UseExisting ==
  /\ pc = "target"
  /\ TargetBranch(args) = "existing"
  /\ Issue(<<"me", "list">>)
  /\ playlist_id' = find_user_playlist_by_name(listing, Me, args.use_existing)
  /\ IF playlist_id' = None
     THEN Exit(1)
     ELSE /\ pc' = IF ShouldClear(args) THEN "clear" ELSE "loop"
          /\ UNCHANGED exit_code
  /\ UNCHANGED <<inputVars, remoteVars, searchVars, loopVars, items, report>>

\* lines 216-218: clear_playlist
ClearPlaylist ==
  /\ pc = "clear"
  /\ LET chunks == RemoveChunks(contents[playlist_id])
     IN /\ removes' = removes \o chunks
        /\ contents' = [contents EXCEPT ![playlist_id] = ApplyRemoves(@, chunks)]
        /\ Issue(<<"items">> \o (IF chunks # <<>> THEN <<"remove">> ELSE <<>>))
  /\ pc' = "loop"
  /\ UNCHANGED <<inputVars, searchVars, loopVars, listing, creates, adds,
                 exit_code, items, playlist_id, report>>

\* lines 219-226: create the new playlist
CreateNew ==
  /\ pc = "target"
  /\ TargetBranch(args) = "create"
  /\ create_playlist(args.spotify_name)
  /\ pc' = "loop"
  /\ UNCHANGED <<inputVars, searchVars, loopVars, exit_code, items, report>>

\* lines 227-229: neither name given
NoTarget ==
  /\ pc = "target"
  /\ TargetBranch(args) = "usage"
  /\ Exit(1)
  /\ UNCHANGED <<inputVars, remoteVars, searchVars, loopVars, callVars, items,
                 playlist_id, report>>

(***************************************************************************)
(* The matching loop and search_track                                      *)
(***************************************************************************)

\* line 236 / line 239: the two accumulators
RecordFound(found, sid) == Append(found, sid)

RecordMissDrop(ms, it) == ms
RecordMiss(ms, it) == Append(ms, it)

\* lines 233-234: the next record enters search_track (lines 87-95)
SearchStart ==
  /\ pc = "loop"
  /\ idx <= Len(items)
  /\ queries' = BuildQueries(items[idx].name, items[idx].artist, items[idx].year)
  /\ qi' = 1
  /\ calls' = <<>>
  /\ resps' = <<>>
  /\ asked' = <<>>
  /\ pc' = "search"
  /\ UNCHANGED <<inputVars, remoteVars, loopVars, callVars, exit_code, items,
                 playlist_id, report>>

\* search_track returns sid; lines 235-240 file the record
Return(sid) ==
  /\ results' = Append(results, sid)
  /\ IF sid # None /\ sid # ""
     THEN found_ids' = RecordFound(found_ids, sid) /\ UNCHANGED misses
     ELSE misses' = RecordMiss(misses, items[idx]) /\ UNCHANGED found_ids
  /\ idx' = idx + 1
  /\ pc' = "loop"
  /\ UNCHANGED <<queries, qi>>

\* lines 109-124: the candidates of one pass have arrived
Receive(cands) ==
  /\ resps' = Append(resps, cands)
  /\ LET r == PassResult(cands, items[idx].name, items[idx].artist)
     IN IF r # None THEN Return(r)
        ELSE IF qi < Len(queries)
        THEN /\ qi' = qi + 1
             /\ pc' = "search"
             /\ UNCHANGED <<queries, loopVars>>
        ELSE Return(None)
  /\ UNCHANGED exit_code

\* lines 98-107: the first sp.search call of a pass
SearchCall ==
  /\ pc = "search"
  /\ Issue(<<"search">>)
  /\ asked' = Append(asked, queries[qi])
  /\ \/ \E cands \in Answers(catalog, queries[qi]) :
          /\ calls' = <<[q |-> queries[qi], outcome |-> 0]>>
          /\ Receive(cands)
     \/ \E status \in catalog.errors :
          /\ calls' = <<[q |-> queries[qi], outcome |-> status]>>
          /\ IF OnSearchError(status) = "retry"
             THEN pc' = "retry" /\ UNCHANGED exit_code
             ELSE Raise
          /\ UNCHANGED <<queries, qi, resps, loopVars>>
  /\ UNCHANGED <<inputVars, remoteVars, items, playlist_id, report>>

\* the query of the call at line 105
RetryQuery(qs, i) == qs[i]

\* lines 103-105: sleep, then the second sp.search call, outside any try
SearchRetry ==
  /\ pc = "retry"
  /\ Issue(<<"search">>)
  /\ UNCHANGED asked
  /\ \/ \E cands \in Answers(catalog, RetryQuery(queries, qi)) :
          /\ calls' = Append(calls, [q |-> RetryQuery(queries, qi), outcome |-> 0])
          /\ Receive(cands)
     \/ \E status \in catalog.errors :
          /\ calls' = Append(calls, [q |-> RetryQuery(queries, qi),
                                     outcome |-> status])
          /\ Raise
          /\ UNCHANGED <<queries, qi, resps, loopVars>>
  /\ UNCHANGED <<inputVars, remoteVars, items, playlist_id, report>>

\* lines 242-243: add_tracks_in_batches, skipped when nothing was found
AddTracks ==
  /\ pc = "loop"
  /\ idx > Len(items)
  /\ IF Truthy(found_ids)
     THEN LET chunks == AddChunks(found_ids)
          IN /\ adds' = adds \o chunks
             /\ contents' = [contents EXCEPT ![playlist_id] = @ \o Concat(chunks)]
             /\ Issue(<<"add">>)
     ELSE UNCHANGED <<adds, contents, callVars>>
  /\ pc' = "report"
  /\ UNCHANGED <<inputVars, searchVars, loopVars, listing, creates, removes,
                 exit_code, items, playlist_id, report>>

\* lines 246-249: the not-found CSV after the run
NotFoundCsvNever(rep, ms) == rep
NotFoundCsv(rep, ms) ==
  IF Truthy(ms) THEN [written |-> TRUE, rows |-> ms] ELSE rep

\* lines 245-249: the summary and the not-found CSV; main returns
WriteReport ==
  /\ pc = "report"
  /\ report' = NotFoundCsv(report, misses)
  /\ pc' = "done"
  /\ exit_code' = <<0>>
  /\ UNCHANGED <<inputVars, remoteVars, searchVars, loopVars, callVars, items,
                 playlist_id>>

(***************************************************************************)
(* Inputs: command lines, libraries, catalogs and accounts                 *)
(***************************************************************************)

MaxBulk == 201
MaxTracks == 2
MaxPlaylistItems == 3
MaxCands == 2

\* sequences over S of length at most n
SeqsUpTo(S, n) == UNION {[1..k -> S] : k \in 0..n}

Trk(key, tid, name, artist, year) ==
  [key |-> key,
   t |-> [TrackID |-> tid, Name |-> name, Artist |-> artist, Year |-> year]]

Lib(tracks, playlists) == [Tracks |-> tracks, Playlists |-> playlists]

Args(sname, existing, mode, apl) ==
  [spotify_name |-> sname, use_existing |-> existing, mode |-> mode,
   apple_playlist |-> apl]

ArgsSet ==
  {Args(n, e, m, <<>>) : n \in {<<>>, <<"p">>, <<"q">>},
                         e \in {<<>>, <<"P", " ">>, <<"z">>},
                         m \in {"append", "replace"}}

SmallLibraries ==
  {Lib(<<>>, <<>>),
   Lib(<<Trk(1, <<1>>, <<"a">>, <<"x">>, <<"int", 1965>>)>>, <<>>),
   Lib(<<Trk(1, <<1>>, <<"a">>, <<"x">>, <<>>),
         Trk(2, <<2>>, <<"A", " ">>, <<"X">>, <<"int", 1965>>),
         Trk(3, <<3>>, <<"b">>, <<"x">>, <<"int", 0>>)>>, <<>>)}

\* candidates of the small catalog: c1 matches a/x, c2 matches b/x
HitA == [id |-> "c1", name |-> <<"A", " ">>, artists |-> {<<"y">>, <<"X">>}]
HitB == [id |-> "c2", name |-> <<"b">>, artists |-> {<<"x">>}]

NoAssignment == [k \in {"year", "strict", "loose"} |-> <<>>]

SmallCatalog ==
  [echo |-> FALSE, gaps |-> FALSE, fixed |-> FALSE, by |-> NoAssignment,
   errors |-> {429, 500}, lists |-> {<<>>, <<HitB>>, <<HitB, HitA>>}]

EchoCatalog(gaps) ==
  [echo |-> TRUE, gaps |-> gaps, fixed |-> FALSE, by |-> NoAssignment,
   errors |-> {}, lists |-> {}]

\* a catalog that answers each kind of query with one given list
FixedCatalog(by) ==
  [echo |-> FALSE, gaps |-> FALSE, fixed |-> TRUE, by |-> by,
   errors |-> {429, 500}, lists |-> {}]

\* candidates for the record a/x: an exact match under another case with a
\* second artist, one that matches once surrounding blanks are trimmed,
\* another title by the same artist, and the title by another artist
CandExact == [id |-> "e", name |-> <<"A">>, artists |-> {<<"y">>, <<"X">>}]
CandPadded == [id |-> "w", name |-> <<" ", "a">>, artists |-> {<<"x", " ">>}]
CandOther == [id |-> "n", name |-> <<"b">>, artists |-> {<<"x">>}]
CandCover == [id |-> "t", name |-> <<"a">>, artists |-> {<<"y">>}]

CandPool == {CandExact, CandPadded, CandOther, CandCover}

CandLists == SeqsUpTo(CandPool, Min(MaxCands, SearchLimit))

SearchRecords ==
  {[name |-> <<"a">>, artist |-> <<"x">>, year |-> y] : y \in {<<>>, <<0>>, <<1965>>}}

\* an account: the playlist listing and the items of each playlist
Account(lst, cont) == [listing |-> lst, contents |-> cont]

Entry(id, name, owner) == [id |-> id, name |-> name, owner |-> owner]

NoItems == [p \in PlaylistIds |-> <<>>]

SmallAccounts ==
  {Account(<<>>, NoItems),
   Account(<<Entry("p1", <<"p">>, "other"), Entry("p2", <<" ", "P">>, Me)>>,
           [NoItems EXCEPT !["p1"] = <<"u1">>,
                           !["p2"] = <<"u1", None, "u2", "u1">>]),
   Account(<<Entry("p1", <<"p">>, "other")>>,
           [NoItems EXCEPT !["p1"] = <<"u1", "u2">>])}

\* the sizes that straddle the batch limit
BulkSizes == {AddBatch - 1, AddBatch, AddBatch + 1, 2 * AddBatch, MaxBulk}

Digits3(k) ==
  <<ToString(k \div 100), ToString((k \div 10) % 10), ToString(k % 10)>>

\* a library of n distinct tracks t001, t002, ...
BulkLibrary(n) ==
  Lib([k \in 1..n |-> Trk(k, <<k>>, <<"t">> \o Digits3(k), <<"x">>, <<>>)], <<>>)

\* a playlist of n items named p, owned by the user: all distinct, with
\* every 7th item lacking a track, or all the same track
BulkItems(n, pattern) ==
  [k \in 1..n |->
     CASE pattern = "distinct" -> "u" \o ToString(k)
       [] pattern = "holes" -> IF k % 7 = 0 THEN None ELSE "u" \o ToString(k)
       [] OTHER -> "u1"]

BulkAccounts ==
  {Account(<<Entry("p3", <<"p">>, Me)>>,
           [NoItems EXCEPT !["p3"] = BulkItems(n, pattern)]) :
     n \in BulkSizes, pattern \in {"distinct", "holes", "same"}}

InitRun(a, e, lib, cat, acct, at, its) ==
  /\ args = a
  /\ env = e
  /\ library = lib
  /\ catalog = cat
  /\ listing = acct.listing
  /\ contents = acct.contents
  /\ contents0 = acct.contents
  /\ issued = {}
  /\ order = <<>>
  /\ asked = <<>>
  /\ creates = <<>>
  /\ adds = <<>>
  /\ removes = <<>>
  /\ pc = at
  /\ exit_code = <<>>
  /\ items = its
  /\ playlist_id = None
  /\ found_ids = <<>>
  /\ misses = <<>>
  /\ idx = 1
  /\ report = [written |-> FALSE, rows |-> <<>>]
  /\ results = <<>>
  /\ queries = <<>>
  /\ qi = 1
  /\ calls = <<>>
  /\ resps = <<>>

\* the state after argument parsing
Init ==
  \/ \E a \in ArgsSet, e \in BOOLEAN, lib \in SmallLibraries,
        acct \in SmallAccounts :
       InitRun(a, e, lib, SmallCatalog, acct, "env", <<>>)
  \/ \E a \in {Args(<<"q">>, <<>>, "append", <<>>),
               Args(<<>>, <<"p">>, "append", <<>>)},
        n \in BulkSizes, g \in BOOLEAN, acct \in SmallAccounts :
       InitRun(a, TRUE, BulkLibrary(n), EchoCatalog(g), acct, "env", <<>>)
  \/ \E a \in {Args(<<>>, <<"p">>, "replace", <<>>),
               Args(<<>>, <<"p">>, "append", <<>>)},
        lib \in SmallLibraries, acct \in BulkAccounts :
       InitRun(a, TRUE, lib, SmallCatalog, acct, "env", <<>>)

Next ==
  \/ CheckEnv
  \/ Load
  \/ Client
  \/ CreateFirst
  \/ UseExisting
  \/ ClearPlaylist
  \/ CreateNew
  \/ NoTarget
  \/ SearchStart
  \/ SearchCall
  \/ SearchRetry
  \/ AddTracks
  \/ WriteReport

Spec == Init /\ [][Next]_vars

(***************************************************************************)
(* The reader alone, over many libraries                                   *)
(***************************************************************************)

RawNames ==
  {<<>>, <<" ">>, <<"a">>, <<"A", " ">>, <<"b">>, <<"&amp;">>, <<"&">>,
   <<"&nbsp;">>}
RawArtists == {<<>>, <<"x">>, <<" ", "X">>}
RawYears == {<<>>, <<"int", 1965>>}

RawTracks ==
  {[Name |-> n, Artist |-> a, Year |-> y] :
     n \in RawNames, a \in RawArtists, y \in RawYears}

\* a library without playlists: track k has key and Track ID k
PlainLibrary(ts) ==
  Lib([k \in DOMAIN ts |-> Trk(k, <<k>>, ts[k].Name, ts[k].Artist, ts[k].Year)],
      <<>>)

\* a track table where key 2 has no Track ID and key 3 repeats Track ID 1,
\* and two playlists
ListedLibrary(its) ==
  Lib(<<Trk(1, <<1>>, <<"a">>, <<"x">>, <<"int", 1965>>),
        Trk(2, <<>>, <<"A", " ">>, <<"X">>, <<"str", 1965>>),
        Trk(3, <<1>>, <<"b">>, <<"x">>, <<>>),
        Trk(4, <<4>>, <<"&nbsp;">>, <<"x">>, <<>>)>>,
      <<[Name |-> <<"k">>, Items |-> <<4, 2>>],
        [Name |-> <<" ", "m">>, Items |-> its]>>)

LoadInit ==
  \/ \E ts \in SeqsUpTo(RawTracks, MaxTracks) :
       InitRun(Args(<<"q">>, <<>>, "append", <<>>), TRUE, PlainLibrary(ts),
               SmallCatalog, Account(<<>>, NoItems), "load", <<>>)
  \/ \E its \in SeqsUpTo({0, 1, 2, 4, 9}, MaxPlaylistItems),
        apl \in {<<>>, <<"M", " ">>, <<"k">>, <<"z">>} :
       InitRun(Args(<<"q">>, <<>>, "append", apl), TRUE, ListedLibrary(its),
               SmallCatalog, Account(<<>>, NoItems), "load", <<>>)

SpecLoad == LoadInit /\ [][Load]_vars

(***************************************************************************)
(* search_track alone, over every assignment of candidate lists            *)
(***************************************************************************)

\* the matching loop is about to start on one record; a query that is not
\* issued has no list
SearchInit ==
  \E rec \in SearchRecords, by \in [{"year", "strict", "loose"} -> CandLists] :
    /\ Len(by["year"]) <= 1
    /\ YearTruthy(rec.year) \/ by["year"] = <<>>
    /\ InitRun(Args(<<"q">>, <<>>, "append", <<>>), TRUE,
               PlainLibrary(<<[Name |-> rec.name, Artist |-> rec.artist,
                               Year |-> IF rec.year = <<>> THEN <<>>
                                        ELSE <<"int", rec.year[1]>>]>>),
               FixedCatalog(by),
               Account(<<>>, NoItems), "loop", <<rec>>)

SearchNext ==
  \/ SearchStart
  \/ SearchCall
  \/ SearchRetry

SpecSearch == SearchInit /\ [][SearchNext]_vars

\* ---------------------------------------------------------------------------
\* find_user_playlist_by_name on its own: main at the --use-existing lookup,
\* on accounts whose playlist listing spans up to three pages

MaxListing == 101

ListingSizes ==
  {0, 1, PlaylistPageLimit - 1, PlaylistPageLimit, PlaylistPageLimit + 1,
   2 * PlaylistPageLimit, MaxListing}

\* the positions of a listing of n playlists where a playlist of the wanted
\* name may stand: the ends of the listing and both sides of a page boundary
Marks(n) ==
  {1, 2, PlaylistPageLimit, PlaylistPageLimit + 1, 2 * PlaylistPageLimit, n}
    \cap (1..n)

\* n playlists k1, k2, ...: those at own are named p and owned by the user,
\* those at others are named " P" and owned by someone else, the rest are named
\* pq and owned alternately
PagedListing(n, own, others) ==
  [k \in 1..n |->
     CASE k \in own -> Entry("k" \o ToString(k), <<"p">>, Me)
       [] k \in others -> Entry("k" \o ToString(k), <<" ", "P">>, "other")
       [] OTHER -> Entry("k" \o ToString(k), <<"p", "q">>,
                         IF k % 2 = 0 THEN Me ELSE "other")]

FindInit ==
  \E n \in ListingSizes, m \in {"append", "replace"} :
    \E own \in SUBSET Marks(n) :
      \E others \in SUBSET (Marks(n) \ own) :
        InitRun(Args(<<>>, <<"P", " ">>, m, <<>>), TRUE, BulkLibrary(1),
                SmallCatalog, Account(PagedListing(n, own, others), NoItems),
                "target", load_apple_xml(BulkLibrary(1), <<>>))

SpecFind == FindInit /\ [][UseExisting]_vars

(***************************************************************************)
(* Properties                                                              *)
(***************************************************************************)

Ended == pc \in {"exit", "raised", "done"}

\* a remote call that writes has been issued
WriteIssued == creates # <<>> \/ adds # <<>> \/ removes # <<>>

\* the run ended at line 214: --use-existing named no playlist
NotFoundExit ==
  /\ pc = "exit"
  /\ "list" \in issued
  /\ playlist_id = None

\* C1: when --use-existing names a playlist that find_user_playlist_by_name
\* does not find, the process exits non-zero and no remote write call
\* (create, add-items, remove-items) has been issued in the run.
C1_NoWriteBeforeNotFound ==
  NotFoundExit => exit_code # <<0>> /\ ~WriteIssued

\* the run got past the credential check and the reader with neither
\* --spotify-name nor --use-existing, and has ended
NoNameRunEnded ==
  /\ ~Truthy(args.spotify_name)
  /\ ~Truthy(args.use_existing)
  /\ Truthy(items)
  /\ Ended

\* C3: with neither --spotify-name nor --use-existing the process exits
\* with code 1 and no playlist create (nor any other write) was issued.
C3_UsageErrorNoWork ==
  NoNameRunEnded => exit_code = <<1>> /\ "create" \notin issued /\ ~WriteIssued

\* ceil(n / d)
CeilDiv(n, d) == (n + d - 1) \div d

\* clear_playlist has run on the target
Cleared == "items" \in issued

\* C4: clear_playlist on a playlist of N items (items without a track or
\* track uri and repeated tracks included) issues exactly ceil(N/100) removal
\* calls of at most 100 identifiers each and leaves none of the N items.
C4_ClearCallsAndEmpty ==
  Cleared =>
    /\ Len(removes) = CeilDiv(Len(contents0[playlist_id]), RemoveBatch)
    /\ \A k \in DOMAIN removes : Len(removes[k]) <= RemoveBatch
    /\ contents[playlist_id] = Concat(adds)

\* the ids search_track returned, in record order
ReturnedIds == SelectSeq(results, LAMBDA r : r # None /\ r # "")

\* C5: add_tracks_in_batches issues ceil(M/100) add-items calls of 1 to 100
\* ids each whose concatenation in call order is its input, and in main that
\* input is the found ids in the order of their records.
C5_AddBatches ==
  /\ found_ids = ReturnedIds
  /\ \A k \in DOMAIN adds : Len(adds[k]) \in 1..AddBatch
  /\ pc \in {"report", "done"} =>
       /\ Len(adds) = CeilDiv(Len(found_ids), AddBatch)
       /\ Concat(adds) = found_ids
  /\ pc \notin {"report", "done"} => adds = <<>>

\* a run whose ids did not fit two calls has added them
C5_Witness ==
  /\ pc = "done"
  /\ Len(adds) >= 2
  /\ Len(adds[Len(adds)]) < AddBatch
  /\ Len(misses) > 0

\* the target is a reused playlist and the mode is replace
ReuseReplace == Truthy(args.use_existing) /\ args.mode = "replace"

\* C10: a removal call is issued only for a reused playlist in replace mode;
\* in every other run the playlists keep their items and what is added to
\* the target follows them.
C10_RemoveOnlyOnReplace ==
  /\ removes # <<>> => ReuseReplace
  /\ ~ReuseReplace =>
       \A p \in PlaylistIds :
         contents[p] = contents0[p]
                         \o (IF p = playlist_id THEN Concat(adds) ELSE <<>>)

\* an append run has added ids behind the items of a reused playlist
C10_Witness ==
  /\ pc = "done"
  /\ args.mode = "append"
  /\ Truthy(args.use_existing)
  /\ contents0[playlist_id] # <<>>
  /\ adds # <<>>

\* the calls of the current pass that raised, by position
Failed == {k \in DOMAIN calls : calls[k].outcome # 0}

\* the calls of a pass: at most two, the second a retry of the same query
\* after a 429; a 429 of the first call is followed by the retry, and every
\* other error has ended the run
C6_State ==
  /\ Len(calls) <= 2
  /\ Len(calls) = 2 =>
       /\ calls[1].outcome = 429
       /\ calls[2].q = calls[1].q
  /\ (Len(calls) = 1 /\ calls[1].outcome = 429) <=> pc = "retry"
  /\ (\/ 1 \in Failed /\ calls[1].outcome # 429
      \/ 2 \in Failed) => pc = "raised"

\* C6: a pass issues sp.search at most twice; the second call follows a 429
\* of the first, repeats its query and is the only retry; any other error,
\* and any error of the retry, ends the run with no further search.
C6_RetryOnce ==
  /\ []C6_State
  /\ [][pc = "raised" => pc' = "raised" /\ calls' = calls]_vars
  /\ [][pc = "retry" => Len(calls') = 2 /\ pc' # "retry"]_vars

\* a retry after a 429 has succeeded and the record was filed
C6_Witness ==
  /\ pc = "loop"
  /\ Len(calls) = 2
  /\ calls[1].outcome = 429
  /\ calls[2].outcome = 0
  /\ Len(results) = 2

\* the records filed so far, with their positions
Filed == Indexed(SubSeq(items, 1, Len(results)))

\* the records for which search_track returned no id, in record order
Unmatched ==
  LET ms == SelectSeq(Filed, LAMBDA e : results[e.i] = None \/ results[e.i] = "")
  IN [k \in DOMAIN ms |-> ms[k].x]

\* search_track has returned for the last record filed, and every query it
\* issued for that record got no candidate
LastAllEmpty ==
  /\ pc \in {"loop", "report", "done"}
  /\ results # <<>>
  /\ \A k \in DOMAIN resps : resps[k] = <<>>

\* C8: a record whose queries all return nothing gets no match and is among
\* the misses written to the report; every record read ends in exactly one of
\* found_ids and misses, and none is dropped.
C8_NoRecordDropped ==
  /\ LastAllEmpty =>
       /\ results[Len(results)] = None
       /\ misses # <<>>
       /\ misses[Len(misses)] = items[Len(results)]
  /\ misses = Unmatched
  /\ found_ids = ReturnedIds
  /\ Len(found_ids) + Len(misses) = Len(results)
  /\ Len(results) = idx - 1
  /\ pc \in {"report", "done"} => Len(results) = Len(items)
  /\ pc = "done" /\ misses # <<>> => report.written /\ report.rows = misses

\* a run with a hit and a miss has written its report
C8_Witness ==
  /\ pc = "done"
  /\ Len(items) = 2
  /\ results[1] # None
  /\ results[2] = None
  /\ \A k \in DOMAIN resps : resps[k] = <<>>
  /\ report.written

\* the resolved, normalized tracks the reader deduplicates
Normalized == ResolvedItems(library, args.apple_playlist)

NonEmpty(it) == it.name # <<>> /\ it.artist # <<>>

CaseKey(it) == <<Lower(it.name), Lower(it.artist)>>

\* the positions of the first occurrence of each key among the usable tracks
FirstOccurrences ==
  {i \in DOMAIN Normalized :
     /\ NonEmpty(Normalized[i])
     /\ \A j \in 1..(i - 1) : CaseKey(Normalized[j]) # CaseKey(Normalized[i])}

\* the k-th smallest element of a set of positions
Kth(I, k) == CHOOSE i \in I : Cardinality({j \in I : j <= i}) = k

\* C9: the reader's output has no two records with the same lowercased
\* (title, artist), has no record with an empty title or artist, and is the
\* subsequence of the normalized input made of the first occurrence of each
\* key, in input order.
C9_ReaderDedupes ==
  pc \notin {"env", "load"} =>
    /\ \A i, j \in DOMAIN items :
         CaseKey(items[i]) = CaseKey(items[j]) => i = j
    /\ \A i \in DOMAIN items : NonEmpty(items[i])
    /\ Len(items) = Cardinality(FirstOccurrences)
    /\ \A k \in DOMAIN items : items[k] = Normalized[Kth(FirstOccurrences, k)]

\* a later track that differs from an earlier one only by case was dropped
C9_Witness ==
  /\ pc = "client"
  /\ Len(items) < Len(Normalized)
  /\ \E i, j \in DOMAIN Normalized :
       /\ i < j
       /\ NonEmpty(Normalized[i])
       /\ Normalized[i] # Normalized[j]
       /\ CaseKey(Normalized[i]) = CaseKey(Normalized[j])

\* search_track has returned for the one record of the search runs
Returned == Len(items) = 1 /\ Len(results) = 1

\* the list the catalog holds for the k-th query of the record
ListOf(k) == catalog.by[queries[k].kind]

\* title and artist agree, compared without regard to case
SameNoCase(c, rec) ==
  /\ Lower(c.name) = Lower(rec.name)
  /\ Lower(rec.artist) \in {Lower(a) : a \in c.artists}

\* title and artist agree once surrounding blanks are trimmed, compared
\* without regard to case
SameTrimmed(c, rec) ==
  /\ Lower(Strip(c.name)) = Lower(Strip(rec.name))
  /\ Lower(Strip(rec.artist)) \in {Lower(Strip(a)) : a \in c.artists}

\* the first position of xs that satisfies Test, 0 when none does
FirstWhere(xs, Test(_)) ==
  IF \E i \in DOMAIN xs : Test(xs[i])
  THEN CHOOSE i \in DOMAIN xs : Test(xs[i]) /\ \A j \in 1..(i - 1) : ~Test(xs[j])
  ELSE 0

\* the first query of the record whose list is not empty, 0 when all are
FirstAnswered ==
  IF \E k \in DOMAIN queries : ListOf(k) # <<>>
  THEN CHOOSE k \in DOMAIN queries :
         ListOf(k) # <<>> /\ \A h \in 1..(k - 1) : ListOf(h) = <<>>
  ELSE 0

\* C2 as claimed: when any attempt of the sequence has an exact-matching
\* candidate, search_track returns the id of such a candidate, even when an
\* earlier attempt returned only non-matching candidates.
C2_ExactAtAnyAttempt ==
  (Returned /\ \E k \in DOMAIN queries : \E i \in DOMAIN ListOf(k) :
                 SameNoCase(ListOf(k)[i], items[1]))
    => \E k \in DOMAIN queries : \E i \in DOMAIN ListOf(k) :
         /\ SameNoCase(ListOf(k)[i], items[1])
         /\ results[1] = ListOf(k)[i].id

\* C2 as amended: when the first attempt that returns a non-empty list has a
\* candidate that matches after trimming and case folding, search_track
\* returns the id of the first such candidate of that list, even when other
\* candidates precede it.
C2_ExactAtFirstAnswered ==
  (/\ Returned
   /\ FirstAnswered # 0
   /\ \E i \in DOMAIN ListOf(FirstAnswered) :
        SameTrimmed(ListOf(FirstAnswered)[i], items[1]))
    => LET cs == ListOf(FirstAnswered)
           Match(c) == SameTrimmed(c, items[1])
       IN results[1] = cs[FirstWhere(cs, Match)].id

\* the first answered list has its match behind another candidate
C2_Witness ==
  /\ Returned
  /\ FirstAnswered # 0
  /\ Len(ListOf(FirstAnswered)) = 2
  /\ ~SameTrimmed(ListOf(FirstAnswered)[1], items[1])
  /\ SameTrimmed(ListOf(FirstAnswered)[2], items[1])
  /\ results[1] = ListOf(FirstAnswered)[2].id

\* the strict queries of the record got nothing and the loose one got some
OnlyLooseAnswered ==
  /\ Returned
  /\ \A k \in DOMAIN queries :
       queries[k].kind # "loose" => ListOf(k) = <<>>
  /\ catalog.by["loose"] # <<>>

\* C7 as claimed: when the strict queries return nothing and the loose query
\* returns candidates, search_track returns the id of the first candidate of
\* the loose list.
C7_LooseFirstCandidate ==
  OnlyLooseAnswered => results[1] = catalog.by["loose"][1].id

\* C7 as amended: in that case search_track returns the id of the first
\* candidate of the loose list that matches after trimming and case folding,
\* and the id of the first candidate of the loose list when none matches.
C7_LooseExactElseFirst ==
  OnlyLooseAnswered =>
    LET cs == catalog.by["loose"]
        Match(c) == SameTrimmed(c, items[1])
    IN results[1] = IF FirstWhere(cs, Match) # 0
                    THEN cs[FirstWhere(cs, Match)].id
                    ELSE cs[1].id

\* a record with a year was answered by the loose query alone, with no match
C7_Witness ==
  /\ OnlyLooseAnswered
  /\ Len(queries) = 3
  /\ \A i \in DOMAIN catalog.by["loose"] :
       ~SameTrimmed(catalog.by["loose"][i], items[1])
  /\ results[1] = catalog.by["loose"][1].id

\* ---------------------------------------------------------------------------
\* main has exited at line 195 or at line 200
EarlyExit ==
  /\ pc = "exit"
  /\ \/ exit_code = <<2>>
     \/ exit_code = <<1>> /\ env /\ items = <<>>

\* C11: whenever main has exited because a credential variable is unset
\* (code 2) or because the reader returned no record (code 1), no remote call
\* of any kind has been issued and nothing has been changed at the service.
C11_NoCallBeforeEarlyExit ==
  EarlyExit => /\ issued = {}
               /\ order = <<>>
               /\ creates = <<>> /\ adds = <<>> /\ removes = <<>>
               /\ contents = contents0

\* both early exits are taken: a run without credentials, and a run with
\* credentials whose library yields no record
C11_Witness ==
  /\ pc = "exit"
  /\ exit_code = <<1>>
  /\ env
  /\ items = <<>>
  /\ Truthy(args.spotify_name)

C11_WitnessNoCredentials ==
  pc = "exit" /\ exit_code = <<2>> /\ ~env

\* ---------------------------------------------------------------------------
\* the lookup of the --use-existing name has returned
Looked == pc # "target"

\* the listed playlists of the wanted name, and those of them the user owns
Named ==
  {k \in DOMAIN listing :
     Lower(Strip(listing[k].name)) = Lower(Strip(args.use_existing))}

OwnNamed == {k \in Named : listing[k].owner = Me}

\* C12: over every paged listing, find_user_playlist_by_name returns the id
\* of a playlist of the wanted name (compared without regard to case, blanks
\* trimmed) owned by the user whenever there is one on any page, even after a
\* playlist of that name owned by someone else; otherwise the first playlist
\* of that name owned by someone else; and nothing only when no playlist of
\* that name is listed.
C12_FindPrefersOwned ==
  Looked =>
    /\ OwnNamed # {} => \E k \in OwnNamed : playlist_id = listing[k].id
    /\ OwnNamed = {} /\ Named # {} =>
         \E k \in Named : /\ playlist_id = listing[k].id
                          /\ \A j \in Named : k <= j
    /\ playlist_id = None <=> Named = {}
    /\ playlist_id = None <=> (pc = "exit" /\ exit_code = <<1>>)

\* the owned playlist of the wanted name is on the third page, after a
\* playlist of that name owned by someone else on the first page
C12_Witness ==
  /\ Looked
  /\ \E k \in OwnNamed : /\ k > 2 * PlaylistPageLimit
                         /\ playlist_id = listing[k].id
  /\ \E j \in Named \ OwnNamed : j <= PlaylistPageLimit

\* no owned playlist of the wanted name: the first of the others is returned
\* from the second page although a third page follows
C12_WitnessNotOwned ==
  /\ Looked
  /\ OwnNamed = {}
  /\ Cardinality(Named) >= 2
  /\ \E k \in Named : k > PlaylistPageLimit /\ playlist_id = listing[k].id
  /\ Len(listing) > 2 * PlaylistPageLimit

\* ---------------------------------------------------------------------------
\* the loop of an append-mode run has ended with every record unmatched
AllMissed ==
  /\ args.mode = "append"
  /\ pc \in {"loop", "report", "done"}
  /\ idx > Len(items)
  /\ found_ids = <<>>

C13_State ==
  AllMissed =>
    /\ Len(items) >= 1
    /\ misses = items
    /\ adds = <<>>
    /\ "add" \notin issued
    /\ contents[playlist_id] = contents0[playlist_id]
    /\ pc = "done" => /\ exit_code = <<0>>
                      /\ report.written
                      /\ report.rows = items

\* C13: in an append-mode run where every record is unmatched (no record
\* found, at least one missing), main goes on from the loop to its end with
\* no failure exit, issues no add-items call, and writes a report with exactly
\* one row per record, in record order.
C13_AllMissedRun ==
  /\ []C13_State
  /\ [][AllMissed /\ pc = "loop" => pc' = "report"]_vars
  /\ [][AllMissed /\ pc = "report" => pc' = "done"]_vars

\* such a run of three records, two of them distinct after the reader, ended
C13_Witness ==
  /\ AllMissed
  /\ pc = "done"
  /\ Len(items) >= 2
  /\ Len(report.rows) = Len(items)

\* ---------------------------------------------------------------------------
\* the kinds of the queries issued for the record, in the order issued
AskedKinds == [k \in DOMAIN asked |-> asked[k].kind]

IsPrefix(xs, ys) == Len(xs) <= Len(ys) /\ xs = SubSeq(ys, 1, Len(xs))

\* the id of the first exact candidate of a list, else of its first candidate
ExactElseFirst(cs, rec) ==
  LET Match(c) == SameTrimmed(c, rec)
  IN IF FirstWhere(cs, Match) # 0 THEN cs[FirstWhere(cs, Match)].id
     ELSE cs[1].id

\* C14: search_track issues its queries in the order strict-with-year (only
\* when the record has a year), strict, loose, and a later query only after
\* every earlier one returned no candidate; the first attempt that returns a
\* non-empty list decides the result, the id of its first exact candidate if
\* it has one and of its first candidate otherwise, and is the last query
\* issued for the record.
C14_QueryOrder ==
  Len(items) = 1 =>
    /\ \/ IsPrefix(AskedKinds, <<"year", "strict", "loose">>)
       \/ IsPrefix(AskedKinds, <<"strict", "loose">>)
    /\ "year" \in Range(AskedKinds) => items[1].year # <<>>
    /\ \A k \in DOMAIN asked :
         /\ asked[k].name = items[1].name
         /\ asked[k].artist = items[1].artist
    /\ Len(resps) \in {Len(asked) - 1, Len(asked)}
    /\ \A k \in DOMAIN resps : k < Len(asked) => resps[k] = <<>>
    /\ Returned =>
         /\ Len(resps) = Len(asked)
         /\ asked # <<>>
         /\ LET last == resps[Len(resps)]
            IN IF last # <<>>
               THEN results[1] = ExactElseFirst(last, items[1])
               ELSE /\ results[1] = None
                    /\ AskedKinds[Len(asked)] = "loose"
                    /\ Len(asked) >= 2
    /\ ~Returned /\ resps # <<>> => resps[Len(resps)] = <<>>

\* the query with the year got nothing; the strict one got a list whose second
\* candidate is the exact one, and the loose query was not issued
C14_Witness ==
  /\ Returned
  /\ AskedKinds = <<"year", "strict">>
  /\ resps[1] = <<>>
  /\ Len(resps[2]) = 2
  /\ ~SameTrimmed(resps[2][1], items[1])
  /\ results[1] = resps[2][2].id
  /\ catalog.by["loose"] # <<>>

\* all three queries were issued and the last decided by its first candidate
C14_WitnessFallback ==
  /\ Returned
  /\ AskedKinds = <<"year", "strict", "loose">>
  /\ \A c \in Range(resps[3]) : ~SameTrimmed(c, items[1])
  /\ resps[3] # <<>>
  /\ results[1] = resps[3][1].id

\* ---------------------------------------------------------------------------
\* a run that reuses a playlist issues no playlist-create call
ReuseCreatesNone ==
  Truthy(args.use_existing) => creates = <<>> /\ "create" \notin issued

\* a run that creates its playlist has issued one playlist-create call when it
\* matches and adds, and the playlist created is the one the items go to
NewCreatesOne ==
  (TargetBranch(args) = "create" /\ pc \in {"loop", "search", "retry",
                                            "report", "done"})
    => /\ Len(creates) = 1
       /\ playlist_id = NewId(1)
       /\ contents[playlist_id] = Concat(adds)

\* C15: the two targets exclude each other in their remote effects: a run
\* that reuses an existing playlist (--use-existing) issues no playlist-create
\* call, and a run that creates a playlist (--spotify-name only) issues
\* exactly one, the playlist created being the one that receives the items.
C15_TargetsExclusive == ReuseCreatesNone /\ NewCreatesOne

\* ---------------------------------------------------------------------------
\* every call of kind a so far was issued before every call of kind b
AllBefore(a, b) ==
  \A i, j \in DOMAIN order : order[i] = a /\ order[j] = b => i < j

\* an error of a search call has ended the run
SearchAborted ==
  /\ pc = "raised"
  /\ order # <<>>
  /\ order[Len(order)] = "search"

\* the removal calls precede the searches, and the searches the add-items
\* calls; a run ended by a search error has added nothing
CallsOrdered ==
  /\ AllBefore("remove", "search")
  /\ AllBefore("search", "add")
  /\ AllBefore("remove", "add")
  /\ SearchAborted => adds = <<>> /\ "add" \notin issued

\* a replace-mode run ended by a search error leaves the reused playlist empty
AbortLeavesEmpty ==
  SearchAborted /\ ReuseReplace => contents[playlist_id] = <<>>

\* C16: in every run all removal calls of the replace-mode clear precede the
\* first search call and every search call precedes the first add-items call;
\* so when a search error ends the run no track has been added, and in
\* replace mode the reused playlist has been emptied and is left empty.
C16_OrderedCalls == CallsOrdered /\ AbortLeavesEmpty

====
